---- MODULE Spec2Model ----
(***************************************************************************)
(* RetroTector loader (utils/retrotector_db/retrotector.py).               *)
(*                                                                         *)
(* main() connects to the store, reads one Retrotector JSON document and   *)
(* loads it with parse_and_load_retroctector: one run_metadata row, then   *)
(* for every chain block of pseuGID a herv_chain row, its subgenes and     *)
(* domains, its motifs, and the LTR list of the whole document.            *)
(*                                                                         *)
(* The store is a psycopg2 connection: an INSERT adds a row to the open    *)
(* transaction (pending), conn.commit() makes the pending rows durable     *)
(* (committed), conn.close() discards what is still pending.  A row keeps  *)
(* its generated id, its foreign key, its type column and, as src, the     *)
(* place of the document its other columns were read from:                 *)
(*   chain <<c>>, subgene <<c,k>>, domain <<c,k,j>>, motif <<c,t,n>>,      *)
(*   LTR <<c,n>> (c = 0 for an entry of soloLTRs).                         *)
(***************************************************************************)
EXTENDS Integers, Sequences, FiniteSets, TLC

\* Documents of at most MaxEntities entities (chain blocks, subgenes, domains,
\* motifs, LTR entries, absent required fields) are loaded.
MaxEntities == 5

\* Number of runs of the program against one store.
MaxRuns == 2

\* Longest list and largest subgene_index handed to insert_subgenes_domains
\* when it is called on its own.
MaxBatch == 2
MaxIndex == 2

\* Largest number of keys left out of a header, a footer or a domain.
MaxAbsent == 2

VARIABLES
    data,                \* the document of the input file
    earlier,             \* the runs of the program that ended before this one
    run_metadata,        \* local of parse_and_load_retroctector
    pc,                  \* position of main / parse_and_load_retroctector
    conn,                \* "unbound" | "open" | "closed"
    err,                 \* message of the exception in flight, "" when none
    failed_in,           \* the step that raised it, "" when none
    out,                 \* lines printed by main
    run_metadata_pk_id,  \* locals of parse_and_load_retroctector
    chain_i,             \* position of chain_block in chain_blocks
    herv_chain_id,
    subgenes, domains, motifs, ltr,
    subgene_index_to_id, \* local of insert_subgenes_domains
    si, di, mi, li,      \* positions of the four insert loops
    pending,             \* rows of the open transaction
    committed,           \* rows made durable by a commit
    seq,                 \* last generated id of every table
    log,                 \* every row the store accepted, in order
    attempts,            \* number of INSERT statements executed
    commits              \* number of conn.commit() calls

mainVars  == <<pc, conn, err, failed_in, out>>
localVars == <<run_metadata_pk_id, chain_i, herv_chain_id, subgenes, domains,
               motifs, ltr, subgene_index_to_id, si, di, mi, li>>
storeVars == <<pending, committed, seq, log, attempts, commits>>
vars      == <<data, earlier, run_metadata, mainVars, localVars, storeVars>>

-----------------------------------------------------------------------------
(* Python values: a type name and the printed value *)

Py(t, v) == [t |-> t, v |-> v]
PyNone == Py("NoneType", "None")
PyBool(b) == Py("bool", IF b THEN "True" ELSE "False")
PyInt(v) == Py("int", v)
PyFloat(v) == Py("float", v)
PyStr(v) == Py("str", v)

Ok(val) == [err |-> "", val |-> val]

\* The truth value of a Python value.
Truthy(val) ==
    CASE val.t = "NoneType" -> FALSE
      [] val.t = "bool" -> val.v = "True"
      [] val.t = "int" -> val.v # "0"
      [] val.t = "float" -> val.v # "0.0"
      [] val.t = "str" -> val.v # ""
      [] OTHER -> TRUE

\* a or b
or(a, b) == IF Truthy(a) THEN a ELSE b

\* The strings that str.lower() changes, among the strings of the documents.
LowerCased ==
    ("Yes" :> "yes") @@ ("YES" :> "yes") @@ ("TRUE" :> "true") @@
    ("True" :> "true") @@ ("No" :> "no") @@ ("Mon Aug 04 04:51:37 GMT 2025" :>
    "mon aug 04 04:51:37 gmt 2025")
lower(s) == IF s \in DOMAIN LowerCased THEN LowerCased[s] ELSE s

\* The strings of the documents that int() and float() accept.
IntLiteral == ("0" :> "0") @@ ("1" :> "1") @@ ("7" :> "7")
FloatLiteral == ("0" :> "0.0") @@ ("1" :> "1.0") @@ ("7" :> "7.0") @@
                ("0.5" :> "0.5")
\* int(x) of a float truncates; float(x) of an int.
Truncated == ("0.0" :> "0") @@ ("0.5" :> "0") @@ ("1.0" :> "1") @@ ("7.0" :> "7")

int(val) ==
    CASE val.t = "int" -> Ok(val)
      [] val.t = "bool" -> Ok(PyInt(IF val.v = "True" THEN "1" ELSE "0"))
      [] val.t = "float" -> Ok(PyInt(Truncated[val.v]))
      [] val.t = "str" ->
            IF val.v \in DOMAIN IntLiteral THEN Ok(PyInt(IntLiteral[val.v]))
            ELSE [err |-> "ValueError", val |-> PyNone]
      [] OTHER -> [err |-> "TypeError", val |-> PyNone]

float(val) ==
    CASE val.t = "float" -> Ok(val)
      [] val.t = "bool" -> Ok(PyFloat(IF val.v = "True" THEN "1.0" ELSE "0.0"))
      [] val.t = "int" -> Ok(PyFloat(FloatLiteral[val.v]))
      [] val.t = "str" ->
            IF val.v \in DOMAIN FloatLiteral THEN Ok(PyFloat(FloatLiteral[val.v]))
            ELSE [err |-> "ValueError", val |-> PyNone]
      [] OTHER -> [err |-> "TypeError", val |-> PyNone]

\* The strings of the documents that match "%a %b %d %H:%M:%S GMT %Y".
DatetimeLiteral ==
    ("Mon Aug 04 04:51:37 GMT 2025" :> "2025-08-04 04:51:37")

\* Dictionaries are functions of their keys.
EmptyDict == <<>>
get(d, key, default) == IF key \in DOMAIN d THEN d[key] ELSE default

\* The values a key of a header or footer holds in the documents.
Values ==
    {PyNone, PyBool(TRUE), PyBool(FALSE), PyInt("0"), PyInt("1"), PyInt("7"),
     PyFloat("0.0"), PyFloat("0.5")}
    \cup {PyStr(v) : v \in {"", "x", "abc", "0", "1", "7", "0.5", "Yes", "yes",
                           "YES", "TRUE", "True", "true", "No", "no",
                           "Mon Aug 04 04:51:37 GMT 2025",
                           "2025-08-04 04:51:37"}}

\* The columns of run_metadata in the order of the metadata dictionary: how
\* the value is read, and from which key of the footer and of the header.
Col(col, kind, key, hkey) ==
    [col |-> col, kind |-> kind, key |-> key, hkey |-> hkey]
RunColumns ==
    << Col("executer", "or_none", "executer", "Executor"),
       Col("dna_file", "or_none", "DNAFile", "DNAFile"),
       Col("selected", "header", "", "Selected"),
       Col("database", "or_none", "Database", "Database"),
       Col("execution_duration", "int", "execution_duration", ""),
       Col("selection_threshold", "float", "SelectionThreshold", ""),
       Col("input_file", "or_empty", "InputFile", "InputFile"),
       Col("improve_hits_max", "int", "ImproveHitsMax", ""),
       Col("conservation_factor", "int", "ConservationFactor", ""),
       Col("subgene_hits_max", "int", "SubGeneHitsMax", ""),
       Col("script_path", "text", "ScriptPath", ""),
       Col("max_subgene_skip", "int", "MaxSubGeneSkip", ""),
       Col("strand", "text", "Strand", ""),
       Col("sdfactor", "bool", "SDFactor", ""),
       Col("broken_passes", "int", "BrokenPasses", ""),
       Col("fit_puteins", "raw", "FitPuteins", ""),
       Col("broken_penalty", "float", "BrokenPenalty", ""),
       Col("final_selection_threshold", "float", "FinalSelectionThreshold", ""),
       Col("keep_threshold", "float", "KeepThreshold", ""),
       Col("frame_factor", "float", "FrameFactor", ""),
       Col("length_bonus", "float", "LengthBonus", ""),
       Col("orfid_min_score", "int", "ORFIDMinScore", ""),
       Col("make_chains_files", "text", "MakeChainsFiles", ""),
       Col("debugging", "raw", "Debugging", ""),
       Col("script_input", "text", "script_input", ""),
       Col("run_datetime", "datetime", "run_datetime", ""),
       Col("retrotector_version", "text", "retrotector_version", ""),
       Col("db_name", "text", "db_name", ""),
       Col("db_last_modified_datetime", "datetime",
           "db_last_modified_datetime", "") >>
ColumnNames == {RunColumns[n].col : n \in 1..Len(RunColumns)}
FooterKeys == {RunColumns[n].key : n \in 1..Len(RunColumns)} \ {""}
HeaderKeys == {RunColumns[n].hkey : n \in 1..Len(RunColumns)} \ {""}

\* A header and a footer that hold every key, with a value of the kind the
\* column expects.
BaseValue(kind) ==
    CASE kind = "int" -> PyInt("7")
      [] kind = "float" -> PyFloat("0.5")
      [] kind = "bool" -> PyStr("Yes")
      [] kind = "datetime" -> PyStr("Mon Aug 04 04:51:37 GMT 2025")
      [] OTHER -> PyStr("x")
BaseFooter ==
    [key \in FooterKeys |->
        BaseValue((CHOOSE c \in {RunColumns[n] : n \in 1..Len(RunColumns)} :
                      c.key = key).kind)]
BaseHeader == [key \in HeaderKeys |-> PyStr("x")]

\* The sets of at most n elements of S.
RECURSIVE SubsetsUpTo(_, _)
SubsetsUpTo(S, n) ==
    IF n = 0 THEN {{}}
    ELSE LET smaller == SubsetsUpTo(S, n - 1)
         IN  smaller \cup {A \cup {x} : A \in smaller, x \in S}

\* The dictionary without the keys of A.
Without(d, A) == [key \in DOMAIN d \ A |-> d[key]]

\* The header and footer of the documents: at most MaxAbsent keys absent
\* from the two together, or a whole section absent (read as {}).
SectionsWithAbsent ==
    UNION {{[header |-> Without(BaseHeader, Ah), footer |-> Without(BaseFooter, Af)] :
               Ah \in SubsetsUpTo(HeaderKeys, n),
               Af \in SubsetsUpTo(FooterKeys, MaxAbsent - n)} : n \in 0..MaxAbsent}
    \cup {[header |-> h, footer |-> f] :
              h \in {BaseHeader, EmptyDict}, f \in {BaseFooter, EmptyDict}}
\* One key of the footer holding any value.
SectionsWithValue ==
    {[header |-> h, footer |-> [BaseFooter EXCEPT ![key] = v]] :
        h \in {BaseHeader, EmptyDict}, key \in FooterKeys, v \in Values}

\* The documents without LTR and without chain block.
RunDocs ==
    {[soloLTRs |-> <<>>, pseuGID |-> <<>>,
      header |-> s.header, footer |-> s.footer] :
        s \in SectionsWithAbsent \cup SectionsWithValue}

-----------------------------------------------------------------------------
(* Helpers *)

None == <<>>
Some(v) == <<v>>

RECURSIVE SumSeq(_)
SumSeq(s) == IF s = <<>> THEN 0 ELSE Head(s) + SumSeq(Tail(s))

RECURSIVE SumFcn(_, _)
SumFcn(f, S) ==
    IF S = {} THEN 0
    ELSE LET x == CHOOSE y \in S : TRUE IN f[x] + SumFcn(f, S \ {x})

RowSet(rows) == {rows[n] : n \in 1..Len(rows)}

\* The first key, in the order the code reads them, that the entry lacks.
FirstAbsent(keys, absent) ==
    keys[CHOOSE n \in 1..Len(keys) :
            /\ keys[n] \in absent
            /\ \A m \in 1..(n - 1) : keys[m] \notin absent]

-----------------------------------------------------------------------------
(* The document *)

Tables == {"run_metadata", "herv_chain", "subgenes", "domains", "motifs", "ltr"}

motif_types == <<"Slippery", "PseudoKnot", "SpliceAcceptor", "SpliceDonor">>
MotifKeys == {motif_types[t] : t \in 1..Len(motif_types)}

ChainRequired == <<"chain_level", "chain_start_idx", "chain_end_idx",
                   "retrovirus_type", "score", "type_of_chain">>
LtrRequired == <<"init_idx", "fin_idx">>

\* An entry lacks no required key, or exactly one of them.
AbsentSets(keys) == {{}} \cup {{keys[n]} : n \in 1..Len(keys)}

Defect(absent) == IF absent = {} THEN 0 ELSE 1

LtrWeight(ls) == Len(ls) + SumSeq([n \in 1..Len(ls) |-> Defect(ls[n].absent)])
SubgenesWeight(sgs) == Len(sgs) + SumSeq(sgs)
BlockWeight(b) ==
    1 + Defect(b.absent) + SubgenesWeight(b.subgenes)
      + SumFcn(b.motifs, MotifKeys) + LtrWeight(b.LTRs)

\* "subgenes" of a chain block: for every subgene the number of its domains.
RECURSIVE SubgeneSeqs(_)
SubgeneSeqs(n) ==
    {<<>>} \cup
    UNION {{<<d>> \o s : s \in SubgeneSeqs(n - 1 - d)} : d \in 0..(n - 1)}

\* The four motif lists of a chain block: the number of entries of each.
MotifCounts(n) == {m \in [MotifKeys -> 0..n] : SumFcn(m, MotifKeys) <= n}

\* An LTR list ("soloLTRs" or a block's "LTRs"): for every entry the required
\* keys it lacks.
RECURSIVE LtrSeqs(_)
LtrSeqs(n) ==
    {<<>>} \cup
    UNION {{<<[absent |-> a]>> \o s : s \in LtrSeqs(n - 1 - Defect(a))} :
           a \in {x \in AbsentSets(LtrRequired) : 1 + Defect(x) <= n}}

Blocks(n) ==
    UNION {UNION {UNION {
        {[absent |-> a, subgenes |-> s, motifs |-> m, LTRs |-> l] :
            l \in LtrSeqs(n - 1 - Defect(a) - SubgenesWeight(s)
                            - SumFcn(m, MotifKeys))} :
        m \in MotifCounts(n - 1 - Defect(a) - SubgenesWeight(s))} :
        s \in SubgeneSeqs(n - 1 - Defect(a))} :
        a \in {x \in AbsentSets(ChainRequired) : 1 + Defect(x) <= n}}

AllBlocks == Blocks(MaxEntities)

\* The chain blocks of every weight.
BlocksOfWeight == [w \in 1..MaxEntities |-> {b \in AllBlocks : BlockWeight(b) = w}]

\* "pseuGID": the sequences of chain blocks of total weight at most n.
RECURSIVE BlockSeqs(_)
BlockSeqs(n) ==
    {<<>>} \cup
    UNION {UNION {{<<b>> \o s : s \in BlockSeqs(n - w)} : b \in BlocksOfWeight[w]} :
           w \in 1..n}

\* The entities of the documents: "soloLTRs" and "pseuGID".
Bodies ==
    UNION {{[soloLTRs |-> l, pseuGID |-> p] :
                p \in BlockSeqs(MaxEntities - LtrWeight(l))} :
           l \in LtrSeqs(MaxEntities)}

\* The documents: the entities, with a header and a footer that hold every
\* key.
Docs ==
    {[soloLTRs |-> body.soloLTRs, pseuGID |-> body.pseuGID,
      header |-> BaseHeader, footer |-> BaseFooter] : body \in Bodies}

-----------------------------------------------------------------------------
(* parse_run_metadata *)

\* As to_bool, the string compared as it is written.
to_bool_exact(val) ==
    IF val.t = "bool" THEN val
    ELSE IF val.t = "str" THEN PyBool(val.v \in {"yes", "true", "1"})
    ELSE PyBool(Truthy(val))

\* to_bool
to_bool(val) ==
    IF val.t = "bool" THEN val
    ELSE IF val.t = "str" THEN PyBool(lower(val.v) \in {"yes", "true", "1"})
    ELSE PyBool(Truthy(val))

\* datetime.strptime(dt_str, "%a %b %d %H:%M:%S GMT %Y")
strptime(dt_str) ==
    IF dt_str.t # "str" THEN [err |-> "TypeError", val |-> PyNone]
    ELSE IF dt_str.v \in DOMAIN DatetimeLiteral
         THEN [err |-> "", val |-> Py("datetime", DatetimeLiteral[dt_str.v])]
         ELSE [err |-> "ValueError", val |-> PyNone]

\* As parse_datetime, without the try.
parse_datetime_uncaught(dt_str) == strptime(dt_str)

\* parse_datetime: any exception of strptime gives None.
parse_datetime(dt_str) ==
    LET parsed == strptime(dt_str)
    IN  IF parsed.err # "" THEN Ok(PyNone) ELSE parsed

\* As ColumnValue, the numeric parameters read with footer[key].
ColumnValueRequired(c, header, footer) ==
    CASE c.kind = "or_none" ->
            Ok(or(get(footer, c.key, PyNone), get(header, c.hkey, PyNone)))
      [] c.kind = "or_empty" ->
            Ok(or(get(footer, c.key, PyNone), get(header, c.hkey, PyStr(""))))
      [] c.kind = "header" -> Ok(get(header, c.hkey, PyNone))
      [] c.kind \in {"int", "float"} ->
            IF c.key \notin DOMAIN footer THEN [err |-> c.key, val |-> PyNone]
            ELSE IF c.kind = "int" THEN int(footer[c.key])
            ELSE float(footer[c.key])
      [] c.kind = "text" -> Ok(get(footer, c.key, PyStr("")))
      [] c.kind = "raw" -> Ok(get(footer, c.key, PyNone))
      [] c.kind = "bool" -> Ok(to_bool(get(footer, c.key, PyBool(FALSE))))
      [] c.kind = "datetime" -> parse_datetime(get(footer, c.key, PyNone))

\* One entry of the metadata dictionary: the value of the column, or the
\* exception its conversion raises.
ColumnValue(c, header, footer) ==
    CASE c.kind = "or_none" ->
            Ok(or(get(footer, c.key, PyNone), get(header, c.hkey, PyNone)))
      [] c.kind = "or_empty" ->
            Ok(or(get(footer, c.key, PyNone), get(header, c.hkey, PyStr(""))))
      [] c.kind = "header" -> Ok(get(header, c.hkey, PyNone))
      [] c.kind = "int" -> int(get(footer, c.key, PyInt("0")))
      [] c.kind = "float" -> float(get(footer, c.key, PyInt("0")))
      [] c.kind = "text" -> Ok(get(footer, c.key, PyStr("")))
      [] c.kind = "raw" -> Ok(get(footer, c.key, PyNone))
      [] c.kind = "bool" -> Ok(to_bool(get(footer, c.key, PyBool(FALSE))))
      [] c.kind = "datetime" -> parse_datetime(get(footer, c.key, PyNone))

\* parse_run_metadata: the entries are evaluated in the order of the
\* dictionary display, so the first conversion that raises ends the call.
parse_run_metadata(json_data) ==
    LET header == json_data.header
        footer == json_data.footer
        entries == [n \in 1..Len(RunColumns) |->
                       ColumnValue(RunColumns[n], header, footer)]
        raising == {n \in 1..Len(RunColumns) : entries[n].err # ""}
    IN  IF raising # {}
        THEN [err |-> entries[CHOOSE n \in raising :
                                 \A m \in raising : n <= m].err,
              val |-> EmptyDict]
        ELSE [err |-> "",
              val |-> [col \in ColumnNames |->
                          entries[CHOOSE n \in 1..Len(RunColumns) :
                                      RunColumns[n].col = col].val]]

-----------------------------------------------------------------------------
(* Field mappers *)

\* parse_subgenes_and_domains: the dictionary built for a subgene
SubgeneFields == {"name", "type", "score", "hotspot"}
parsed_subgene_dict(subgene_counter, subgene) ==
    ("subgene_index" :> PyInt(ToString(subgene_counter)))
    @@ [key \in SubgeneFields |-> get(subgene, key, PyNone)]

\* parse_subgenes_and_domains: the dictionary built for a domain
DomainFields == {"idx", "type", "origin", "score", "hotspot", "frame",
                 "pos_init", "pos_fin", "match_input", "reference_match",
                 "n_bases"}
parsed_domain_dict(subgene_counter, domain) ==
    ("subgene_index" :> PyInt(ToString(subgene_counter)))
    @@ [key \in DomainFields |-> get(domain, key, PyNone)]

\* parse_motifs: the dictionary built for a motif
MotifFields == {"pos_init", "pos_end", "score"}
motif_entry(motif_type, motif) ==
    ("type" :> PyStr(motif_type))
    @@ [key \in MotifFields |-> get(motif, key, PyNone)]

\* As extract_herv_chain_metadata, every key read with .get().
extract_herv_chain_metadata_get(c, chain_block) ==
    [err |-> "", val |-> Some([src |-> <<c>>])]

\* extract_herv_chain_metadata: a KeyError names the first required key the
\* block lacks; otherwise the chain record.
extract_herv_chain_metadata(c, chain_block) ==
    IF chain_block.absent # {}
    THEN [err |-> FirstAbsent(ChainRequired, chain_block.absent), val |-> None]
    ELSE [err |-> "", val |-> Some([src |-> <<c>>])]

\* The loop of parse_subgenes_and_domains from the k-th subgene on;
\* subgene_counter is incremented at the end of every iteration.
RECURSIVE psd_loop(_, _, _, _, _)
psd_loop(c, sgs, k, subgene_counter, acc) ==
    IF k > Len(sgs) THEN acc
    ELSE LET parsed_subgene == [subgene_index |-> subgene_counter,
                                src |-> <<c, k>>]
             parsed_domains == [j \in 1..sgs[k] |->
                                   [subgene_index |-> subgene_counter,
                                    src |-> <<c, k, j>>]]
         IN  psd_loop(c, sgs, k + 1, subgene_counter + 1,
                      [subgenes |-> Append(acc.subgenes, parsed_subgene),
                       domains  |-> acc.domains \o parsed_domains])

\* As psd_loop, with subgene_counter incremented before the domains are read.
RECURSIVE psd_loop_shifted(_, _, _, _, _)
psd_loop_shifted(c, sgs, k, subgene_counter, acc) ==
    IF k > Len(sgs) THEN acc
    ELSE LET parsed_subgene == [subgene_index |-> subgene_counter,
                                src |-> <<c, k>>]
             parsed_domains == [j \in 1..sgs[k] |->
                                   [subgene_index |-> subgene_counter + 1,
                                    src |-> <<c, k, j>>]]
         IN  psd_loop_shifted(c, sgs, k + 1, subgene_counter + 1,
                      [subgenes |-> Append(acc.subgenes, parsed_subgene),
                       domains  |-> acc.domains \o parsed_domains])

parse_subgenes_and_domains_shifted(c, chain_block) ==
    psd_loop_shifted(c, chain_block.subgenes, 1, 0,
                     [subgenes |-> <<>>, domains |-> <<>>])

parse_subgenes_and_domains(c, chain_block) ==
    psd_loop(c, chain_block.subgenes, 1, 0, [subgenes |-> <<>>, domains |-> <<>>])

\* As pm_loop, every category put in front of the entries found so far.
RECURSIVE pm_loop_prepend(_, _, _, _)
pm_loop_prepend(c, chain_block, t, motif_entries) ==
    IF t > Len(motif_types) THEN motif_entries
    ELSE LET motif_type == motif_types[t]
             found == [n \in 1..chain_block.motifs[motif_type] |->
                          [type |-> motif_type, src |-> <<c, t, n>>]]
         IN  pm_loop_prepend(c, chain_block, t + 1, found \o motif_entries)

\* parse_motifs: the four categories in the order of motif_types, every
\* category in source order.
RECURSIVE pm_loop(_, _, _, _)
pm_loop(c, chain_block, t, motif_entries) ==
    IF t > Len(motif_types) THEN motif_entries
    ELSE LET motif_type == motif_types[t]
             found == [n \in 1..chain_block.motifs[motif_type] |->
                          [type |-> motif_type, src |-> <<c, t, n>>]]
         IN  pm_loop(c, chain_block, t + 1, motif_entries \o found)

\* As parse_motifs, returning after the first category.
parse_motifs_first_only(c, chain_block) ==
    [n \in 1..chain_block.motifs[motif_types[1]] |->
        [type |-> motif_types[1], src |-> <<c, 1, n>>]]

parse_motifs(c, chain_block) == pm_loop(c, chain_block, 1, <<>>)

\* parse_ltrs: the entries of soloLTRs, then the LTRs of every chain block of
\* pseuGID tagged with the 0-based index of the block.  entry["init_idx"]
\* and entry["fin_idx"] raise KeyError on the first entry that lacks one.
SoloEntries(doc) ==
    [n \in 1..Len(doc.soloLTRs) |->
        [herv_chain_index |-> None, ltr_type |-> "solo", src |-> <<0, n>>,
         absent |-> doc.soloLTRs[n].absent]]

RECURSIVE FullEntries(_, _)
FullEntries(doc, c) ==
    IF c > Len(doc.pseuGID) THEN <<>>
    ELSE [n \in 1..Len(doc.pseuGID[c].LTRs) |->
            [herv_chain_index |-> Some(c - 1), ltr_type |-> "full",
             src |-> <<c, n>>, absent |-> doc.pseuGID[c].LTRs[n].absent]]
         \o FullEntries(doc, c + 1)

parse_ltrs(doc) ==
    LET entries == SoloEntries(doc) \o FullEntries(doc, 1)
        bad == {n \in 1..Len(entries) : entries[n].absent # {}}
    IN  IF bad # {}
        THEN LET n == CHOOSE x \in bad : \A y \in bad : x <= y
             IN  [err |-> FirstAbsent(LtrRequired, entries[n].absent),
                  val |-> <<>>]
        ELSE [err |-> "",
              val |-> [n \in 1..Len(entries) |->
                          [herv_chain_index |-> entries[n].herv_chain_index,
                           ltr_type |-> entries[n].ltr_type,
                           src |-> entries[n].src]]]

-----------------------------------------------------------------------------
(* The store *)

Row(table, id, fk, type, src) ==
    [table |-> table, id |-> id, fk |-> fk, type |-> type, src |-> src]

\* The id the store generates for the next row of the table.
NextId(table) == seq[table] + 1

\* cursor.execute(INSERT ...) accepted by the store.
Executed(row) ==
    /\ seq' = [seq EXCEPT ![row.table] = row.id]
    /\ log' = Append(log, row)
    /\ attempts' = attempts + 1

\* As Accept on a connection in autocommit mode.
AcceptAutocommit(row) ==
    /\ Executed(row)
    /\ committed' = committed \o <<row>>
    /\ UNCHANGED <<pending, commits>>

Accept(row) ==
    /\ Executed(row)
    /\ pending' = Append(pending, row)
    /\ UNCHANGED <<committed, commits>>

\* As AcceptAndCommit, the call to conn.commit() left out.
AcceptNoCommit(row) ==
    /\ Executed(row)
    /\ pending' = Append(pending, row)
    /\ UNCHANGED <<committed, commits>>

\* cursor.execute(INSERT ...) followed by conn.commit() in the same function.
AcceptAndCommit(row) ==
    /\ Executed(row)
    /\ committed' = committed \o Append(pending, row)
    /\ pending' = <<>>
    /\ commits' = commits + 1

\* cursor.execute(INSERT ...) rejected by the store: the statement raises.
Reject ==
    /\ attempts' = attempts + 1
    /\ UNCHANGED <<pending, committed, seq, log, commits>>

\* As Commit, the call to conn.commit() left out.
CommitLeftOut ==
    UNCHANGED <<pending, committed, seq, log, attempts, commits>>

\* conn.commit() at the end of a batch.
Commit ==
    /\ committed' = committed \o pending
    /\ pending' = <<>>
    /\ commits' = commits + 1
    /\ UNCHANGED <<seq, log, attempts>>

\* An exception leaves parse_and_load_retroctector and reaches main's handler.
Raise(msg, step) ==
    /\ err' = msg
    /\ failed_in' = step
    /\ pc' = "except"

\* The rows the insert functions build from a parsed entry.
RunRow(id) == Row("run_metadata", id, None, "", <<>>)
ChainRow(entry, run_metadata_pk, id) ==
    Row("herv_chain", id, Some(run_metadata_pk), "", entry.src)
\* As SubgeneRow, linked to the run instead of the chain.
SubgeneRowRunId(subgene, chain_id, id) ==
    Row("subgenes", id, Some(run_metadata_pk_id), "", subgene.src)
SubgeneRow(subgene, chain_id, id) ==
    Row("subgenes", id, Some(chain_id), "", subgene.src)
\* As DomainRow, the positional index written as subgene_id.
DomainRowPositional(domain, index_to_id, id) ==
    Row("domains", id, Some(domain.subgene_index), "", domain.src)
DomainRow(domain, index_to_id, id) ==
    Row("domains", id, Some(index_to_id[domain.subgene_index]), "", domain.src)
MotifRow(motif, chain_id, id) ==
    Row("motifs", id, Some(chain_id), motif.type, motif.src)
\* As LtrRow, an entry of soloLTRs left without a chain.
LtrRowSoloUnlinked(ltr_entry, chain_id, id) ==
    Row("ltr", id,
        IF ltr_entry.herv_chain_index = None THEN None ELSE Some(chain_id),
        ltr_entry.ltr_type, ltr_entry.src)
LtrRow(ltr_entry, chain_id, id) ==
    Row("ltr", id, Some(chain_id), ltr_entry.ltr_type, ltr_entry.src)

-----------------------------------------------------------------------------
(* main and parse_and_load_retroctector *)

\* The locals of a run of the program before its first step.
Fresh ==
    /\ conn = "unbound"
    /\ err = ""
    /\ failed_in = ""
    /\ out = <<>>
    /\ run_metadata_pk_id = 0
    /\ chain_i = 0
    /\ herv_chain_id = 0
    /\ subgenes = <<>>
    /\ domains = <<>>
    /\ motifs = <<>>
    /\ ltr = <<>>
    /\ subgene_index_to_id = <<>>
    /\ si = 1 /\ di = 1 /\ mi = 1 /\ li = 1
    /\ run_metadata = EmptyDict
    /\ pending = <<>>

Start == pc = "start" /\ Fresh

\* The store before the first run: no row.
EmptyStore ==
    /\ committed = <<>>
    /\ seq = [t \in Tables |-> 0]
    /\ log = <<>>
    /\ attempts = 0
    /\ commits = 0
    /\ earlier = <<>>

Init ==
    /\ data \in Docs
    /\ Start
    /\ EmptyStore

chain_blocks == data.pseuGID
chain_block == chain_blocks[chain_i]

\* main: print, psycopg2.connect
Connect ==
    /\ pc = "start"
    /\ \/ /\ conn' = "open"
          /\ out' = out \o << <<"Loading">>, <<"Connected to DB">> >>
          /\ pc' = "load"
          /\ UNCHANGED <<err, failed_in>>
       \/ /\ Raise("OperationalError", "connect")
          /\ out' = Append(out, <<"Loading">>)
          /\ UNCHANGED conn
    /\ UNCHANGED <<data, earlier, run_metadata, localVars, storeVars>>

\* main: load_retrotector_json
LoadJson ==
    /\ pc = "load"
    /\ \/ /\ pc' = "run_metadata"
          /\ UNCHANGED <<err, failed_in>>
       \/ Raise("DocumentError", "load")
    /\ UNCHANGED <<data, earlier, run_metadata, conn, out, localVars, storeVars>>

\* As InsertRunMetadata, the Run row of an earlier load reused when the
\* store holds one.
InsertRunMetadataUpsert ==
    /\ pc = "run_metadata"
    /\ LET parsed == parse_run_metadata(data)
           row == RunRow(NextId("run_metadata"))
           held == {r \in RowSet(committed) : r.table = "run_metadata"}
       IN  IF parsed.err # ""
           THEN /\ Raise(parsed.err, "run_metadata")
                /\ UNCHANGED <<run_metadata, run_metadata_pk_id, storeVars>>
           ELSE /\ run_metadata' = parsed.val
                /\ IF held # {}
                   THEN /\ run_metadata_pk_id' = (CHOOSE r \in held : TRUE).id
                        /\ pc' = "loop"
                        /\ UNCHANGED <<err, failed_in, storeVars>>
                   ELSE \/ /\ AcceptAndCommit(row)
                           /\ run_metadata_pk_id' = row.id
                           /\ pc' = "loop"
                           /\ UNCHANGED <<err, failed_in>>
                        \/ /\ Reject
                           /\ Raise("StoreError", "run_metadata")
                           /\ UNCHANGED run_metadata_pk_id
    /\ UNCHANGED <<data, earlier, conn, out, chain_i, herv_chain_id, subgenes, domains,
                   motifs, ltr, subgene_index_to_id, si, di, mi, li>>

\* parse_run_metadata, insert_run_metadata
InsertRunMetadata ==
    /\ pc = "run_metadata"
    /\ LET parsed == parse_run_metadata(data)
           row == RunRow(NextId("run_metadata"))
       IN  IF parsed.err # ""
           THEN /\ Raise(parsed.err, "run_metadata")
                /\ UNCHANGED <<run_metadata, run_metadata_pk_id, storeVars>>
           ELSE /\ run_metadata' = parsed.val
                /\ \/ /\ AcceptAndCommit(row)
                      /\ run_metadata_pk_id' = row.id
                      /\ pc' = "loop"
                      /\ UNCHANGED <<err, failed_in>>
                   \/ /\ Reject
                      /\ Raise("StoreError", "run_metadata")
                      /\ UNCHANGED run_metadata_pk_id
    /\ UNCHANGED <<data, earlier, conn, out, chain_i, herv_chain_id, subgenes, domains,
                   motifs, ltr, subgene_index_to_id, si, di, mi, li>>

\* for chain_block in chain_blocks: extract_herv_chain_metadata,
\* insert_herv_chain
InsertHervChain ==
    /\ pc = "loop"
    /\ chain_i < Len(chain_blocks)
    /\ chain_i' = chain_i + 1
    /\ LET c == chain_i + 1
           chain_metadata == extract_herv_chain_metadata(c, chain_blocks[c])
       IN  IF chain_metadata.err # ""
           THEN /\ Raise(chain_metadata.err, "herv_chain")
                /\ UNCHANGED <<herv_chain_id, storeVars>>
           ELSE LET row == ChainRow(chain_metadata.val[1], run_metadata_pk_id,
                                    NextId("herv_chain"))
                IN  \/ /\ AcceptAndCommit(row)
                       /\ herv_chain_id' = row.id
                       /\ pc' = "parse_sd"
                       /\ UNCHANGED <<err, failed_in>>
                    \/ /\ Reject
                       /\ Raise("StoreError", "herv_chain")
                       /\ UNCHANGED herv_chain_id
    /\ UNCHANGED <<data, earlier, run_metadata, conn, out, run_metadata_pk_id, subgenes, domains,
                   motifs, ltr, subgene_index_to_id, si, di, mi, li>>

\* As LoadReturns, with the solo LTRs inserted after the loop when the
\* document has no chain block.
LoadReturnsInsertingSolo ==
    /\ pc = "loop"
    /\ chain_i >= Len(chain_blocks)
    /\ pc' = "finally"
    /\ LET solo == IF chain_i = 0
                   THEN [n \in 1..Len(data.soloLTRs) |->
                            Row("ltr", seq["ltr"] + n, None, "solo", <<0, n>>)]
                   ELSE <<>>
       IN  /\ committed' = committed \o solo
           /\ log' = log \o solo
           /\ seq' = [seq EXCEPT !["ltr"] = @ + Len(solo)]
           /\ attempts' = attempts + Len(solo)
    /\ UNCHANGED <<data, earlier, run_metadata, conn, err, failed_in, out, localVars, pending, commits>>

\* The loop over chain_blocks is exhausted: the load returns to main.
LoadReturns ==
    /\ pc = "loop"
    /\ chain_i >= Len(chain_blocks)
    /\ pc' = "finally"
    /\ UNCHANGED <<data, earlier, run_metadata, conn, err, failed_in, out, localVars, storeVars>>

\* parse_subgenes_and_domains, and the entry of insert_subgenes_domains
ParseSubgenesAndDomains ==
    /\ pc = "parse_sd"
    /\ LET parsed == parse_subgenes_and_domains(chain_i, chain_block) IN
       /\ subgenes' = parsed.subgenes
       /\ domains' = parsed.domains
    /\ subgene_index_to_id' = <<>>
    /\ si' = 1
    /\ di' = 1
    /\ pc' = "insert_sd"
    /\ UNCHANGED <<data, earlier, run_metadata, conn, err, failed_in, out, run_metadata_pk_id,
                   chain_i, herv_chain_id, motifs, ltr, mi, li, storeVars>>

\* insert_subgenes_domains: one iteration of "for subgene in subgenes"
InsertSubgene ==
    /\ pc = "insert_sd"
    /\ si <= Len(subgenes)
    /\ LET subgene == subgenes[si]
           row == SubgeneRow(subgene, herv_chain_id, NextId("subgenes"))
       IN  \/ /\ Accept(row)
              /\ subgene_index_to_id' =
                     (subgene.subgene_index :> row.id) @@ subgene_index_to_id
              /\ si' = si + 1
              /\ UNCHANGED <<pc, err, failed_in>>
           \/ /\ Reject
              /\ Raise("StoreError", "subgenes_domains")
              /\ UNCHANGED <<subgene_index_to_id, si>>
    /\ UNCHANGED <<data, earlier, run_metadata, conn, out, run_metadata_pk_id, chain_i, herv_chain_id,
                   subgenes, domains, motifs, ltr, di, mi, li>>

\* As InsertDomain, the id looked up with .get(): an unassigned index gives
\* a row without parent.
InsertDomainGet ==
    /\ pc = "insert_sd"
    /\ si > Len(subgenes)
    /\ di <= Len(domains)
    /\ LET domain == domains[di]
           row == IF domain.subgene_index \in DOMAIN subgene_index_to_id
                  THEN DomainRow(domain, subgene_index_to_id, NextId("domains"))
                  ELSE Row("domains", NextId("domains"), None, "", domain.src)
       IN  \/ /\ Accept(row)
              /\ di' = di + 1
              /\ UNCHANGED <<pc, err, failed_in>>
           \/ /\ Reject
              /\ Raise("StoreError", "subgenes_domains")
              /\ UNCHANGED di
    /\ UNCHANGED <<data, earlier, run_metadata, conn, out, run_metadata_pk_id, chain_i, herv_chain_id,
                   subgenes, domains, motifs, ltr, subgene_index_to_id, si,
                   mi, li>>

\* insert_subgenes_domains: one iteration of "for domain in domains"
InsertDomain ==
    /\ pc = "insert_sd"
    /\ si > Len(subgenes)
    /\ di <= Len(domains)
    /\ LET domain == domains[di] IN
       IF domain.subgene_index \notin DOMAIN subgene_index_to_id
       THEN /\ Raise(ToString(domain.subgene_index), "subgenes_domains")
            /\ UNCHANGED <<di, storeVars>>
       ELSE LET row == DomainRow(domain, subgene_index_to_id, NextId("domains"))
            IN  \/ /\ Accept(row)
                   /\ di' = di + 1
                   /\ UNCHANGED <<pc, err, failed_in>>
                \/ /\ Reject
                   /\ Raise("StoreError", "subgenes_domains")
                   /\ UNCHANGED di
    /\ UNCHANGED <<data, earlier, run_metadata, conn, out, run_metadata_pk_id, chain_i, herv_chain_id,
                   subgenes, domains, motifs, ltr, subgene_index_to_id, si,
                   mi, li>>

\* insert_subgenes_domains: conn.commit() after both loops
CommitSubgenesDomains ==
    /\ pc = "insert_sd"
    /\ si > Len(subgenes)
    /\ di > Len(domains)
    /\ Commit
    /\ pc' = "parse_motifs"
    /\ UNCHANGED <<data, earlier, run_metadata, conn, err, failed_in, out, localVars>>

\* parse_motifs
ParseMotifs ==
    /\ pc = "parse_motifs"
    /\ motifs' = parse_motifs(chain_i, chain_block)
    /\ mi' = 1
    /\ pc' = "insert_motifs"
    /\ UNCHANGED <<data, earlier, run_metadata, conn, err, failed_in, out, run_metadata_pk_id,
                   chain_i, herv_chain_id, subgenes, domains, ltr,
                   subgene_index_to_id, si, di, li, storeVars>>

\* As InsertMotif, a rejected insert caught inside the loop, which goes on.
InsertMotifSwallow ==
    /\ pc = "insert_motifs"
    /\ mi <= Len(motifs)
    /\ LET row == MotifRow(motifs[mi], herv_chain_id, NextId("motifs")) IN
       \/ /\ Accept(row)
          /\ UNCHANGED <<pc, err, failed_in>>
       \/ /\ Reject
          /\ err' = "StoreError"
          /\ failed_in' = "motifs"
          /\ UNCHANGED pc
    /\ mi' = mi + 1
    /\ UNCHANGED <<data, earlier, run_metadata, conn, out, run_metadata_pk_id, chain_i, herv_chain_id,
                   subgenes, domains, motifs, ltr, subgene_index_to_id, si, di,
                   li>>

\* insert_motifs: one iteration of "for motif in motifs"
InsertMotif ==
    /\ pc = "insert_motifs"
    /\ mi <= Len(motifs)
    /\ LET row == MotifRow(motifs[mi], herv_chain_id, NextId("motifs")) IN
       \/ /\ Accept(row)
          /\ mi' = mi + 1
          /\ UNCHANGED <<pc, err, failed_in>>
       \/ /\ Reject
          /\ Raise("StoreError", "motifs")
          /\ UNCHANGED mi
    /\ UNCHANGED <<data, earlier, run_metadata, conn, out, run_metadata_pk_id, chain_i, herv_chain_id,
                   subgenes, domains, motifs, ltr, subgene_index_to_id, si, di,
                   li>>

\* insert_motifs: conn.commit() after the loop
CommitMotifs ==
    /\ pc = "insert_motifs"
    /\ mi > Len(motifs)
    /\ Commit
    /\ pc' = "parse_ltrs"
    /\ UNCHANGED <<data, earlier, run_metadata, conn, err, failed_in, out, localVars>>

\* parse_ltrs(data), on every chain iteration
ParseLtrs ==
    /\ pc = "parse_ltrs"
    /\ LET parsed == parse_ltrs(data) IN
       IF parsed.err # ""
       THEN /\ Raise(parsed.err, "ltr")
            /\ UNCHANGED <<ltr, li>>
       ELSE /\ ltr' = parsed.val
            /\ li' = 1
            /\ pc' = "insert_ltrs"
            /\ UNCHANGED <<err, failed_in>>
    /\ UNCHANGED <<data, earlier, run_metadata, conn, out, run_metadata_pk_id, chain_i, herv_chain_id,
                   subgenes, domains, motifs, subgene_index_to_id, si, di, mi,
                   storeVars>>

\* insert_ltrs: one iteration of "for ltr_entry in ltr_list"
InsertLtr ==
    /\ pc = "insert_ltrs"
    /\ li <= Len(ltr)
    /\ LET row == LtrRow(ltr[li], herv_chain_id, NextId("ltr")) IN
       \/ /\ Accept(row)
          /\ li' = li + 1
          /\ UNCHANGED <<pc, err, failed_in>>
       \/ /\ Reject
          /\ Raise("StoreError", "ltr")
          /\ UNCHANGED li
    /\ UNCHANGED <<data, earlier, run_metadata, conn, out, run_metadata_pk_id, chain_i, herv_chain_id,
                   subgenes, domains, motifs, ltr, subgene_index_to_id, si, di,
                   mi>>

\* insert_ltrs: conn.commit() after the loop; back to the chain loop
CommitLtrs ==
    /\ pc = "insert_ltrs"
    /\ li > Len(ltr)
    /\ Commit
    /\ pc' = "loop"
    /\ UNCHANGED <<data, earlier, run_metadata, conn, err, failed_in, out, localVars>>

\* main: except Exception as e: print(f"Error: {e}")
Except ==
    /\ pc = "except"
    /\ out' = Append(out, <<"Error:", err>>)
    /\ pc' = "finally"
    /\ UNCHANGED <<data, earlier, run_metadata, conn, err, failed_in, localVars, storeVars>>

\* As Finally, conn.close() called at the end of the try block only.
FinallyAfterSuccess ==
    /\ pc = "finally"
    /\ IF err # ""
       THEN /\ pc' = "done"
            /\ UNCHANGED <<conn, out, pending>>
       ELSE /\ conn' = "closed"
            /\ pending' = <<>>
            /\ out' = Append(out, <<"DB connection closed">>)
            /\ pc' = "done"
    /\ UNCHANGED <<data, earlier, run_metadata, err, failed_in, localVars, committed, seq, log,
                   attempts, commits>>

\* main: finally: if conn: conn.close().  conn is unbound when connect
\* raised: the test itself raises UnboundLocalError, which leaves main.
\* Closing the connection discards the open transaction.
Finally ==
    /\ pc = "finally"
    /\ IF conn = "unbound"
       THEN /\ err' = "UnboundLocalError"
            /\ failed_in' = "finally"
            /\ pc' = "crashed"
            /\ UNCHANGED <<conn, out, pending>>
       ELSE /\ conn' = "closed"
            /\ pending' = <<>>
            /\ out' = Append(out, <<"DB connection closed">>)
            /\ pc' = "done"
            /\ UNCHANGED <<err, failed_in>>
    /\ UNCHANGED <<data, earlier, run_metadata, localVars, committed, seq, log, attempts, commits>>

Next ==
    \/ Connect
    \/ LoadJson
    \/ InsertRunMetadata
    \/ InsertHervChain
    \/ LoadReturns
    \/ ParseSubgenesAndDomains
    \/ InsertSubgene
    \/ InsertDomain
    \/ CommitSubgenesDomains
    \/ ParseMotifs
    \/ InsertMotif
    \/ CommitMotifs
    \/ ParseLtrs
    \/ InsertLtr
    \/ CommitLtrs
    \/ Except
    \/ Finally

Spec == Init /\ [][Next]_vars

\* The program is started again on the same input file once a run has ended:
\* a new process with new locals against the same store.
RunAgain ==
    /\ pc \in {"done", "crashed"}
    /\ Len(earlier) + 1 < MaxRuns
    /\ earlier' = Append(earlier, [err |-> err, committed |-> committed])
    /\ pc' = "start"
    /\ conn' = "unbound"
    /\ err' = ""
    /\ failed_in' = ""
    /\ out' = <<>>
    /\ run_metadata_pk_id' = 0
    /\ chain_i' = 0
    /\ herv_chain_id' = 0
    /\ subgenes' = <<>>
    /\ domains' = <<>>
    /\ motifs' = <<>>
    /\ ltr' = <<>>
    /\ subgene_index_to_id' = <<>>
    /\ si' = 1 /\ di' = 1 /\ mi' = 1 /\ li' = 1
    /\ run_metadata' = EmptyDict
    /\ pending' = <<>>
    /\ UNCHANGED <<data, committed, seq, log, attempts, commits>>

TwiceNext == Next \/ RunAgain

\* The load of the documents without LTR and without chain block.
RunInit ==
    /\ data \in RunDocs
    /\ Start
    /\ EmptyStore

RunNext ==
    \/ Connect
    \/ LoadJson
    \/ InsertRunMetadata
    \/ LoadReturns
    \/ Except
    \/ Finally

RunSpec == RunInit /\ [][RunNext]_vars

\* The mappers called on their own, on a header and footer, a subgene, a
\* domain or a motif from which keys are absent.
RunTrees ==
    {[kind |-> "run", header |-> s.header, footer |-> s.footer] :
        s \in SectionsWithAbsent}
SubgeneTrees ==
    {[kind |-> "subgene", tree |-> Without([key \in SubgeneFields |-> PyStr("x")], A)] :
        A \in SUBSET SubgeneFields}
DomainTrees ==
    {[kind |-> "domain", tree |-> Without([key \in DomainFields |-> PyStr("x")], A)] :
        A \in SubsetsUpTo(DomainFields, MaxAbsent) \cup {DomainFields}}
MotifTrees ==
    {[kind |-> "motif", type |-> t, tree |-> Without([key \in MotifFields |-> PyInt("7")], A)] :
        A \in SUBSET MotifFields, t \in MotifKeys}

FieldInit ==
    /\ data \in RunTrees \cup SubgeneTrees \cup DomainTrees \cup MotifTrees
    /\ pc = "map"
    /\ Fresh
    /\ EmptyStore

MapRun ==
    /\ pc = "map"
    /\ data.kind = "run"
    /\ LET parsed == parse_run_metadata(data)
       IN  /\ run_metadata' = parsed.val
           /\ err' = parsed.err
    /\ pc' = "mapped"
    /\ UNCHANGED <<data, earlier, conn, failed_in, out, localVars, storeVars>>

MapSubgene ==
    /\ pc = "map"
    /\ data.kind = "subgene"
    /\ subgenes' = <<parsed_subgene_dict(0, data.tree)>>
    /\ pc' = "mapped"
    /\ UNCHANGED <<data, earlier, run_metadata, conn, err, failed_in, out,
                   run_metadata_pk_id, chain_i, herv_chain_id, domains, motifs,
                   ltr, subgene_index_to_id, si, di, mi, li, storeVars>>

MapDomain ==
    /\ pc = "map"
    /\ data.kind = "domain"
    /\ domains' = <<parsed_domain_dict(0, data.tree)>>
    /\ pc' = "mapped"
    /\ UNCHANGED <<data, earlier, run_metadata, conn, err, failed_in, out,
                   run_metadata_pk_id, chain_i, herv_chain_id, subgenes, motifs,
                   ltr, subgene_index_to_id, si, di, mi, li, storeVars>>

MapMotif ==
    /\ pc = "map"
    /\ data.kind = "motif"
    /\ motifs' = <<motif_entry(data.type, data.tree)>>
    /\ pc' = "mapped"
    /\ UNCHANGED <<data, earlier, run_metadata, conn, err, failed_in, out,
                   run_metadata_pk_id, chain_i, herv_chain_id, subgenes, domains,
                   ltr, subgene_index_to_id, si, di, mi, li, storeVars>>

FieldNext ==
    \/ MapRun
    \/ MapSubgene
    \/ MapDomain
    \/ MapMotif

FieldSpec == FieldInit /\ [][FieldNext]_vars

\* insert_subgenes_domains called on its own, on an open connection to a
\* store that holds the Run row and the Chain row, with any two lists of
\* parsed subgenes and parsed domains.
ParsedSubgeneLists ==
    UNION {{[k \in 1..n |-> [subgene_index |-> f[k], src |-> <<1, k>>]] :
               f \in [1..n -> 0..MaxIndex]} : n \in 0..MaxBatch}
ParsedDomainLists ==
    UNION {{[j \in 1..n |-> [subgene_index |-> f[j], src |-> <<1, f[j] + 1, j>>]] :
               f \in [1..n -> 0..MaxIndex]} : n \in 0..MaxBatch}

BatchInit ==
    /\ data = [soloLTRs |-> <<>>, pseuGID |-> <<>>,
               header |-> BaseHeader, footer |-> BaseFooter]
    /\ earlier = <<>>
    /\ run_metadata = EmptyDict
    /\ pc = "insert_sd"
    /\ conn = "open"
    /\ err = ""
    /\ failed_in = ""
    /\ out = <<>>
    /\ run_metadata_pk_id = 1
    /\ chain_i = 0
    /\ herv_chain_id = 1
    /\ subgenes \in ParsedSubgeneLists
    /\ domains \in ParsedDomainLists
    /\ motifs = <<>>
    /\ ltr = <<>>
    /\ subgene_index_to_id = <<>>
    /\ si = 1 /\ di = 1 /\ mi = 1 /\ li = 1
    /\ pending = <<>>
    /\ committed = <<RunRow(1), ChainRow([src |-> <<1>>], 1, 1)>>
    /\ log = <<RunRow(1), ChainRow([src |-> <<1>>], 1, 1)>>
    /\ seq = [t \in Tables |-> IF t \in {"run_metadata", "herv_chain"} THEN 1 ELSE 0]
    /\ attempts = 2
    /\ commits = 2

BatchNext ==
    \/ InsertSubgene
    \/ InsertDomain
    \/ CommitSubgenesDomains
    \/ Except
    \/ Finally

BatchSpec == BatchInit /\ [][BatchNext]_vars

TwiceSpec == Init /\ [][TwiceNext]_vars

\* Every step of main returns: the interpreter keeps running the program.
FairSpec == Spec /\ WF_vars(Next)

TypeOK ==
    /\ pc \in {"start", "load", "run_metadata", "loop", "parse_sd", "insert_sd",
               "parse_motifs", "insert_motifs", "parse_ltrs", "insert_ltrs",
               "except", "finally", "done", "crashed"}
    /\ conn \in {"unbound", "open", "closed"}

-----------------------------------------------------------------------------
(* The entities of the document, by their place in it *)

ChainPaths == {<<c>> : c \in 1..Len(data.pseuGID)}
SubgenePathsOf(c) == {<<c, k>> : k \in 1..Len(data.pseuGID[c].subgenes)}
DomainPathsOf(c) ==
    UNION {{<<c, k, j>> : j \in 1..data.pseuGID[c].subgenes[k]} :
           k \in 1..Len(data.pseuGID[c].subgenes)}
MotifPathsOf(c) ==
    UNION {{<<c, t, n>> : n \in 1..data.pseuGID[c].motifs[motif_types[t]]} :
           t \in 1..Len(motif_types)}
SubgenePaths == UNION {SubgenePathsOf(c) : c \in 1..Len(data.pseuGID)}
DomainPaths == UNION {DomainPathsOf(c) : c \in 1..Len(data.pseuGID)}
MotifPaths == UNION {MotifPathsOf(c) : c \in 1..Len(data.pseuGID)}
SoloLtrPaths == {<<0, n>> : n \in 1..Len(data.soloLTRs)}
FullLtrPaths ==
    UNION {{<<c, n>> : n \in 1..Len(data.pseuGID[c].LTRs)} :
           c \in 1..Len(data.pseuGID)}
LtrPaths == SoloLtrPaths \cup FullLtrPaths

\* The rows of a table the store accepted, and those it holds durably.
Logged(table) == {r \in RowSet(log) : r.table = table}
Committed(table) == {r \in RowSet(committed) : r.table = table}

\* The table holds durably one row for every path and no other row.
OneRowPer(table, paths) ==
    /\ Cardinality(Committed(table)) = Cardinality(paths)
    /\ \A p \in paths : Cardinality({r \in Committed(table) : r.src = p}) = 1

\* The steps of one chain iteration.
ChainSteps == {"herv_chain", "subgenes_domains", "motifs", "ltr"}

-----------------------------------------------------------------------------
(* Claims *)

\* C1: every Domain row the store accepted carries as subgene_id the id
\* generated for the Subgene row of the subgene it is nested under in the
\* document, and the id of no other Subgene row (a sibling, or a subgene of
\* another chain).
C1_DomainParentIsItsSubgene ==
    \A d \in Logged("domains") :
        /\ \E s \in Logged("subgenes") :
              s.src = SubSeq(d.src, 1, 2) /\ d.fk = Some(s.id)
        /\ \A s \in Logged("subgenes") :
              d.fk = Some(s.id) => s.src = SubSeq(d.src, 1, 2)

\* A load ended with a Domain row of the second subgene of a chain.
C1_Witness ==
    /\ pc = "done"
    /\ \E d \in Committed("domains") : d.src[2] = 2

\* C2: at every point of a load every accepted row references a parent row
\* accepted earlier (Chain -> Run, Subgene and Motif -> Chain, Domain ->
\* Subgene), and within one chain every Subgene insert precedes every Domain
\* insert.
ParentTable(table) ==
    CASE table = "herv_chain" -> "run_metadata"
      [] table = "subgenes"   -> "herv_chain"
      [] table = "motifs"     -> "herv_chain"
      [] table = "domains"    -> "subgenes"
      [] OTHER                -> ""

C2_ParentInsertedBefore ==
    /\ \A n \in 1..Len(log) :
          log[n].table \in {"herv_chain", "subgenes", "motifs", "domains"} =>
              \E m \in 1..(n - 1) :
                  /\ log[m].table = ParentTable(log[n].table)
                  /\ log[n].fk = Some(log[m].id)
    /\ \A n, m \in 1..Len(log) :
          /\ log[n].table = "subgenes"
          /\ log[m].table = "domains"
          /\ log[n].src[1] = log[m].src[1]
          => n < m

\* A load ended after Domain and Motif rows were accepted.
C2_Witness ==
    /\ pc = "done"
    /\ Logged("domains") # {}
    /\ Logged("motifs") # {}

\* C3: a load that completes without error leaves exactly one Run row, one
\* Chain row per chain block, one Subgene row per subgene, one Domain row per
\* domain and one Motif row per motif entry.
C3_OneRowPerEntity ==
    (pc = "done" /\ err = "") =>
        /\ Cardinality(Committed("run_metadata")) = 1
        /\ OneRowPer("herv_chain", ChainPaths)
        /\ OneRowPer("subgenes", SubgenePaths)
        /\ OneRowPer("domains", DomainPaths)
        /\ OneRowPer("motifs", MotifPaths)

\* The scenario: one chain, two subgenes (one domain, no domain), one motif;
\* the load completed with 1, 1, 2, 1, 1 rows.
C3_Witness ==
    /\ pc = "done" /\ err = ""
    /\ Len(data.pseuGID) = 1
    /\ data.pseuGID[1].subgenes = <<1, 0>>
    /\ Cardinality(MotifPaths) = 1
    /\ Cardinality(Committed("run_metadata")) = 1
    /\ Cardinality(Committed("herv_chain")) = 1
    /\ Cardinality(Committed("subgenes")) = 2
    /\ Cardinality(Committed("domains")) = 1
    /\ Cardinality(Committed("motifs")) = 1

\* C4: once the load has ended and the connection is released, the store
\* holds none of the Subgene and Domain rows of a chain whose
\* insert_subgenes_domains raised, and all of them when it did not raise.
BatchRows(c) ==
    {r \in Committed("subgenes") \cup Committed("domains") : r.src[1] = c}
BatchPaths(c) == SubgenePathsOf(c) \cup DomainPathsOf(c)
BatchRaised(c) == failed_in = "subgenes_domains" /\ chain_i = c
BatchReturned(c) ==
    \/ c < chain_i
    \/ c = chain_i /\ failed_in \in {"", "motifs", "ltr"}

C4_BatchAllOrNothing ==
    pc = "done" =>
        \A c \in 1..Len(data.pseuGID) :
            /\ BatchRaised(c) => BatchRows(c) = {}
            /\ BatchReturned(c) =>
                  /\ {r.src : r \in BatchRows(c)} = BatchPaths(c)
                  /\ Cardinality(BatchRows(c)) = Cardinality(BatchPaths(c))

\* A load ended after the store rejected a row of a batch of which it had
\* accepted an earlier row.
C4_Witness ==
    /\ pc = "done"
    /\ failed_in = "subgenes_domains"
    /\ err = "StoreError"
    /\ si > 1

\* C5: after a load that failed in chain block k > 1 the store still holds
\* the Run row and the Chain, Subgene, Domain and Motif rows of every block
\* before k.
Holds(table, paths) == \A p \in paths : \E r \in Committed(table) : r.src = p

C5_EarlierChainsKept ==
    (pc = "done" /\ failed_in \in ChainSteps /\ chain_i > 1) =>
        /\ Committed("run_metadata") # {}
        /\ \A c \in 1..(chain_i - 1) :
              /\ Holds("herv_chain", {<<c>>})
              /\ Holds("subgenes", SubgenePathsOf(c))
              /\ Holds("domains", DomainPathsOf(c))
              /\ Holds("motifs", MotifPathsOf(c))

\* A load failed in the second chain block after a first block with a
\* subgene, a domain and a motif.
C5_Witness ==
    /\ pc = "done"
    /\ failed_in \in ChainSteps
    /\ chain_i = 2
    /\ DomainPathsOf(1) # {}
    /\ MotifPathsOf(1) # {}

\* C6: a rejected insert raises out of the load, and from then on no insert
\* and no commit is issued: the store sees no further statement.
Rejected == attempts' = attempts + 1 /\ log' = log

C6_RejectAbortsLoad ==
    [][/\ Rejected => (pc' = "except" /\ err' = "StoreError")
       /\ err = "StoreError" =>
             /\ attempts' = attempts
             /\ commits' = commits
             /\ log' = log
             /\ committed' = committed]_vars

\* A load ended on a rejected insert with a chain block still to process.
C6_Witness ==
    /\ pc = "done"
    /\ err = "StoreError"
    /\ failed_in \in {"subgenes_domains", "motifs"}
    /\ chain_i < Len(data.pseuGID)

\* C7: every Subgene row and every Motif row carries the id generated for the
\* Chain row of its own block, and every Domain row references a Subgene row
\* that carries it.
ChainRowOf(c) == {h \in Logged("herv_chain") : h.src = <<c>>}

C7_LinkedToOwnChain ==
    /\ \A r \in Logged("subgenes") \cup Logged("motifs") :
          /\ \E h \in ChainRowOf(r.src[1]) : r.fk = Some(h.id)
          /\ \A h \in Logged("herv_chain") :
                r.fk = Some(h.id) => h.src = <<r.src[1]>>
    /\ \A d \in Logged("domains") :
          \E s \in Logged("subgenes") :
              /\ d.fk = Some(s.id)
              /\ \E h \in ChainRowOf(d.src[1]) : s.fk = Some(h.id)

\* A load ended with a Subgene, a Domain and a Motif row of a second chain.
C7_Witness ==
    /\ pc = "done"
    /\ \E r \in Committed("subgenes") : r.src[1] = 2
    /\ \E r \in Committed("domains") : r.src[1] = 2

\* C8: every completed chain iteration has inserted the LTR list of the whole
\* document (soloLTRs and the LTRs of every block) linked to that iteration's
\* chain; a completed load of N blocks holds N * (S + F) LTR rows.
LtrRowsOf(c) ==
    {r \in Committed("ltr") : \E h \in ChainRowOf(c) : r.fk = Some(h.id)}
IterationsDone ==
    IF pc = "loop" \/ (pc \in {"finally", "done"} /\ err = "")
    THEN 1..chain_i ELSE {}

C8_WholeLtrSetPerChain ==
    /\ \A c \in IterationsDone :
          /\ Cardinality(LtrRowsOf(c)) = Cardinality(LtrPaths)
          /\ {r.src : r \in LtrRowsOf(c)} = LtrPaths
    /\ (pc = "done" /\ err = "") =>
          Cardinality(Committed("ltr")) =
              Len(data.pseuGID) * (Cardinality(SoloLtrPaths)
                                   + Cardinality(FullLtrPaths))

\* A load of two chain blocks, a solo LTR and a full LTR completed.
C8_Witness ==
    /\ pc = "done" /\ err = ""
    /\ Len(data.pseuGID) = 2
    /\ SoloLtrPaths # {}
    /\ FullLtrPaths # {}

\* C9: every LTR row read from soloLTRs has no chain reference.
C9_SoloLtrHasNoChain ==
    \A r \in Logged("ltr") : r.type = "solo" => r.fk = None

\* C10: once the connection is established it is eventually closed.
C10_ConnectionEventuallyClosed == (conn = "open") ~> (conn = "closed")

\* The connection was closed after a load that failed.
C10_Witness ==
    /\ conn = "closed"
    /\ err # ""

\* C11: no exception escapes main.
C11_NoExceptionEscapesMain == pc # "crashed"

\* C14: a load that meets an absent required key fails with an error that
\* names the missing key and the kind of entity, and no row is inserted for
\* that entity.
AbsentInChains ==
    {data.pseuGID[c].absent : c \in 1..Len(data.pseuGID)} \ {{}}
AbsentInLtrs ==
    ({data.soloLTRs[n].absent : n \in 1..Len(data.soloLTRs)}
     \cup UNION {{data.pseuGID[c].LTRs[n].absent :
                     n \in 1..Len(data.pseuGID[c].LTRs)} :
                 c \in 1..Len(data.pseuGID)}) \ {{}}
\* str(KeyError(key)) is the key in quotes: the words of the printed message.
ErrorWords(msg) == {msg}
StoreAccepted == failed_in \notin {"connect", "load"} /\ err # "StoreError"

C14_MappingErrorNamesFieldAndEntity ==
    (pc = "done" /\ StoreAccepted /\ AbsentInChains \cup AbsentInLtrs # {}) =>
        /\ failed_in \in {"herv_chain", "ltr"}
        /\ ErrorWords(err) \cap UNION (AbsentInChains \cup AbsentInLtrs) # {}
        /\ ErrorWords(err) \cap {"herv_chain", "chain", "ltr", "LTR"} # {}

\* C14 as amended: a chain block that lacks a required key raises, when its
\* iteration starts, a KeyError whose message is that key and nothing else,
\* and gets no Chain row; a document with an LTR entry that lacks init_idx
\* or fin_idx raises such a KeyError in parse_ltrs of the first chain
\* iteration, before any LTR row is inserted, and loads without error when
\* it has no chain block.
C14_KeyErrorNamesTheKeyOnly ==
    /\ \A c \in 1..Len(data.pseuGID) :
          data.pseuGID[c].absent # {} =>
              /\ ChainRowOf(c) = {}
              /\ chain_i >= c =>
                    /\ chain_i = c
                    /\ failed_in = "herv_chain"
                    /\ ErrorWords(err) \subseteq data.pseuGID[c].absent
    /\ AbsentInLtrs # {} =>
          /\ Logged("ltr") = {}
          /\ pc # "insert_ltrs"
          /\ ~(pc = "loop" /\ chain_i >= 1)
          /\ failed_in = "ltr" =>
                /\ chain_i = 1
                /\ ErrorWords(err) \subseteq UNION AbsentInLtrs
          /\ (pc = "done" /\ err = "") => Len(data.pseuGID) = 0

\* A load failed on the second chain block, which lacks a required key.
C14_Witness ==
    /\ pc = "done"
    /\ failed_in = "herv_chain"
    /\ chain_i = 2
    /\ data.pseuGID[2].absent # {}
    /\ err \in data.pseuGID[2].absent

\* C16: parse_motifs returns one entry per motif of the block, tagged with
\* its category; Slippery first, then PseudoKnot, SpliceAcceptor, SpliceDonor,
\* every category in source order; an empty category adds no entry.
CategoryRank == [Slippery |-> 1, PseudoKnot |-> 2, SpliceAcceptor |-> 3,
                 SpliceDonor |-> 4]

C16_MotifOrder ==
    pc = "insert_motifs" =>
        /\ \A key \in DOMAIN chain_block.motifs :
              {motifs[n].src[3] : n \in {x \in 1..Len(motifs) : motifs[x].type = key}}
                  = 1..chain_block.motifs[key]
        /\ Len(motifs) = SumFcn(chain_block.motifs, DOMAIN chain_block.motifs)
        /\ \A n, m \in 1..Len(motifs) :
              n < m =>
                  \/ CategoryRank[motifs[n].type] < CategoryRank[motifs[m].type]
                  \/ /\ motifs[n].type = motifs[m].type
                     /\ motifs[n].src[3] < motifs[m].src[3]

\* parse_motifs returned two entries of one category and one of another.
C16_Witness ==
    /\ pc = "insert_motifs"
    /\ Len(motifs) = 3
    /\ motifs[1].type = motifs[2].type
    /\ motifs[2].type # motifs[3].type

\* C19: after a load that failed in the subgene/domain batch of a chain
\* block, the store holds the Chain row of that block and no Subgene, Domain,
\* Motif or LTR row that references it.
C19_ChainRowWithoutChildren ==
    (pc = "done" /\ failed_in = "subgenes_domains") =>
        /\ \E h \in Committed("herv_chain") : h.src = <<chain_i>> /\ h.id = herv_chain_id
        /\ \A r \in Committed("subgenes") \cup Committed("motifs") \cup Committed("ltr") :
              r.fk # Some(herv_chain_id)
        /\ \A d \in Committed("domains") : d.src[1] # chain_i

\* A load ended after the store rejected a row of the first block's batch.
C19_Witness ==
    /\ pc = "done"
    /\ failed_in = "subgenes_domains"
    /\ chain_i = 1
    /\ Len(log) > 2

\* C20: a completed load of a document without chain block inserts one Run row
\* and nothing else, whatever soloLTRs holds.
C20_NoChainNoLtr ==
    (pc = "done" /\ err = "" /\ Len(data.pseuGID) = 0) =>
        /\ Len(committed) = 1
        /\ committed[1].table = "run_metadata"
        /\ Len(log) = 1
        /\ attempts = 1

\* A load of a document with solo LTRs and no chain block completed.
C20_Witness ==
    /\ pc = "done" /\ err = ""
    /\ Len(data.pseuGID) = 0
    /\ Len(data.soloLTRs) > 0

\* C12: loading a valid document twice into the same store leaves two full
\* sets of rows: every table holds twice the rows it held after the first
\* load, and the rows of the second load hang on a second Run row.
LoadedTwice ==
    /\ Len(earlier) = 1
    /\ earlier[1].err = ""
    /\ pc = "done"
    /\ err = ""

C12_SecondLoadDoublesEveryTable ==
    LoadedTwice =>
        LET first == RowSet(earlier[1].committed)
            second == RowSet(committed) \ first
            Of(rows, tables) == {r \in rows : r.table \in tables}
        IN  /\ first \subseteq RowSet(committed)
            /\ \A t \in Tables :
                  Cardinality(Of(RowSet(committed), {t}))
                      = 2 * Cardinality(Of(first, {t}))
            /\ Cardinality(Of(first, {"run_metadata"})) = 1
            /\ \A r1 \in Of(first, {"run_metadata"}) :
                  \A r2 \in Of(second, {"run_metadata"}) :
                      /\ r1.id # r2.id
                      /\ \A h \in Of(second, {"herv_chain"}) : h.fk = Some(r2.id)
            /\ \A r \in Of(second, {"subgenes", "motifs", "ltr"}) :
                  \E h \in Of(second, {"herv_chain"}) : r.fk = Some(h.id)
            /\ \A d \in Of(second, {"domains"}) :
                  \E sg \in Of(second, {"subgenes"}) : d.fk = Some(sg.id)

\* A document with a chain block, a subgene, a domain and an LTR entry was
\* loaded twice.
C12_Witness ==
    /\ LoadedTwice
    /\ Cardinality(Committed("herv_chain")) = 2
    /\ Cardinality(Committed("domains")) = 2
    /\ Cardinality(Committed("ltr")) = 2

\* C13: insert_subgenes_domains raises when the next domain carries a
\* subgene_index that no subgene of the batch was given, the error being the
\* failed lookup of that index, and no Domain row is inserted without the id
\* of a Subgene row of the batch as its parent.
Unresolved ==
    /\ pc = "insert_sd"
    /\ si > Len(subgenes)
    /\ di <= Len(domains)
    /\ domains[di].subgene_index
           \notin {subgenes[k].subgene_index : k \in 1..Len(subgenes)}

ParentsResolved(rows) ==
    \A d \in {r \in RowSet(rows) : r.table = "domains"} :
        \E sg \in {r \in RowSet(rows) : r.table = "subgenes"} : d.fk = Some(sg.id)

C13_UnassignedIndexRaises ==
    [][/\ Unresolved =>
            /\ pc' = "except"
            /\ failed_in' = "subgenes_domains"
            /\ err' = ToString(domains[di].subgene_index)
            /\ attempts' = attempts
            /\ log' = log
       /\ ParentsResolved(log')]_vars

\* The second domain of the batch carries an index that no subgene has,
\* after the first domain was inserted.
C13_Witness ==
    /\ failed_in = "subgenes_domains"
    /\ err \notin {"", "StoreError"}
    /\ di = 2
    /\ Logged("domains") # {}
    /\ pc = "done"

\* C17: to_bool on the run's SDFactor: a boolean is kept; a string is true
\* exactly when its lower-cased form is "yes", "true" or "1"; an absent key
\* and the number 0 give false.
TrueStrings == {"Yes", "yes", "YES", "TRUE", "True", "true", "1"}

C17_BooleanNormalization ==
    run_metadata # EmptyDict =>
        LET footer == data.footer
            sdfactor == run_metadata["sdfactor"]
        IN  /\ sdfactor.t = "bool"
            /\ "SDFactor" \notin DOMAIN footer => sdfactor.v = "False"
            /\ "SDFactor" \in DOMAIN footer =>
                  LET val == footer["SDFactor"]
                  IN  /\ val.t = "bool" => sdfactor = val
                      /\ val.t = "str" =>
                            (sdfactor.v = "True" <=> val.v \in TrueStrings)
                      /\ (val.t = "int" /\ val.v = "0") => sdfactor.v = "False"

\* A load mapped the SDFactor "TRUE" to true.
C17_Witness ==
    /\ run_metadata # EmptyDict
    /\ "SDFactor" \in DOMAIN data.footer
    /\ data.footer["SDFactor"] = PyStr("TRUE")
    /\ run_metadata["sdfactor"] = PyBool(TRUE)
    /\ pc = "done"

\* C18: a run_datetime or db_last_modified_datetime that is absent or does
\* not match the format never fails the load: the column is None and the Run
\* row is mapped and inserted.
DatetimeKeys == {"run_datetime", "db_last_modified_datetime"}
WellFormed == {PyStr("Mon Aug 04 04:51:37 GMT 2025")}
NoTimestamp(key) ==
    key \notin DOMAIN data.footer \/ data.footer[key] \notin WellFormed

C18_MalformedTimestampIsNone ==
    /\ (failed_in = "run_metadata" /\ err # "StoreError") =>
          \E key \in DOMAIN data.footer \ DatetimeKeys :
              data.footer[key] # BaseFooter[key]
    /\ \A key \in DatetimeKeys :
          NoTimestamp(key) =>
              /\ run_metadata # EmptyDict => run_metadata[key] = PyNone
              /\ (pc = "done" /\ err = "") =>
                    /\ run_metadata # EmptyDict
                    /\ Cardinality(Committed("run_metadata")) = 1

\* A load ended without error on a footer whose run_datetime is in another
\* format.
C18_Witness ==
    /\ pc = "done" /\ err = ""
    /\ "run_datetime" \in DOMAIN data.footer
    /\ data.footer["run_datetime"] = PyStr("2025-08-04 04:51:37")
    /\ run_metadata["run_datetime"] = PyNone
    /\ Committed("run_metadata") # {}

\* C15: a mapper never raises on a run, subgene, domain or motif from which
\* optional keys are absent, and returns every destination column, a missing
\* one holding 0, the empty string or null.
ColumnOf(col) ==
    CHOOSE c \in {RunColumns[n] : n \in 1..Len(RunColumns)} : c.col = col
\* The column has no source: the keys it is read from are absent.
MissingRun(col) ==
    /\ ColumnOf(col).key = "" \/ ColumnOf(col).key \notin DOMAIN data.footer
    /\ ColumnOf(col).hkey = "" \/ ColumnOf(col).hkey \notin DOMAIN data.header

\* What the mapper returned for the sub-tree, and the keys read with a
\* default.
Mapped ==
    CASE data.kind = "run" -> run_metadata
      [] data.kind = "subgene" -> subgenes[1]
      [] data.kind = "domain" -> domains[1]
      [] data.kind = "motif" -> motifs[1]
MappedColumns ==
    CASE data.kind = "run" -> ColumnNames
      [] data.kind = "subgene" -> SubgeneFields \cup {"subgene_index"}
      [] data.kind = "domain" -> DomainFields \cup {"subgene_index"}
      [] data.kind = "motif" -> MotifFields \cup {"type"}
MissingColumns ==
    IF data.kind = "run" THEN {col \in ColumnNames : MissingRun(col)}
    ELSE (MappedColumns \ {"subgene_index", "type"}) \ DOMAIN data.tree

IntColumns ==
    {"execution_duration", "improve_hits_max", "conservation_factor",
     "subgene_hits_max", "max_subgene_skip", "broken_passes", "orfid_min_score"}
FloatColumns ==
    {"selection_threshold", "broken_penalty", "final_selection_threshold",
     "keep_threshold", "frame_factor", "length_bonus"}
TextColumns ==
    {"input_file", "script_path", "strand", "make_chains_files", "script_input",
     "retrotector_version", "db_name"}
DefaultOf(col) ==
    IF data.kind # "run" THEN PyNone
    ELSE CASE col \in IntColumns -> PyInt("0")
           [] col \in FloatColumns -> PyFloat("0.0")
           [] col \in TextColumns -> PyStr("")
           [] col = "sdfactor" -> PyBool(FALSE)
           [] OTHER -> PyNone

====
